---- MODULE Spec2Model ----
(***************************************************************************)
(* Model of pyrad/fields/modules/field_heads.py: the FieldHeadNames enum,  *)
(* the FieldHead base class (constructor, set_in_dim, _construct_net,      *)
(* forward) and its seven subclasses.                                      *)
(*                                                                         *)
(* One head object is followed from its constructor call through any       *)
(* sequence of set_in_dim and forward calls.  The object is its attribute  *)
(* dictionary: a function from attribute names to values, so an attribute  *)
(* that was never assigned (in_dim of a head built without in_dim) is      *)
(* simply not in its domain.  Python's None is the empty set and a present *)
(* Optional value v is {v}.  Tensors are a shape and a symbolic value (the *)
(* term of the modules applied to the input data), torch modules are       *)
(* records, and an nn.Sequential carries the identity of its allocation.   *)
(***************************************************************************)
EXTENDS Integers, Sequences, FiniteSets, TLC

VARIABLES
    obj,        \* the head's attribute dictionary; empty while no head exists
    ctor,       \* the constructor call that produced obj: class and keyword arguments
    allocs,     \* how many nn.Sequential networks the head has built so far
    set_called, \* whether set_in_dim has been called on the head
    last        \* the last call made: its arguments and its outcome

vars == <<obj, ctor, allocs, set_called, last>>

---------------------------------------------------------------------------
\* Bounds of the model.

\* in_dim and tensor trailing widths range up to MaxDim.
MaxDim == 2

\* out_dim / num_classes arguments range up to MaxOut.
MaxOut == 1

\* levels arguments range up to MaxLevels, channels arguments up to
\* MaxChannels (the defaults, 3 and 3, come with the omitted argument).
MaxLevels == 2

MaxChannels == 1

\* Number of networks one head may build through set_in_dim.
MaxNets == 2

---------------------------------------------------------------------------
\* Python values.

None == {}

Some(v) == {v}

The(o) == CHOOSE v \in o : TRUE

NoObject == <<>>

Exists(self) == DOMAIN self # {}

HasAttr(self, name) == name \in DOMAIN self

SetAttr(self, name, v) ==
    [k \in DOMAIN self \cup {name} |-> IF k = name THEN v ELSE self[k]]

\* A keyword argument of a call, or the parameter's default when omitted.
Arg(kwargs, name, default) ==
    IF name \in DOMAIN kwargs THEN kwargs[name] ELSE default

NoKwargs == <<>>

---------------------------------------------------------------------------
\* torch modules and tensors.

Softplus == [type |-> "Softplus"]

Sigmoid == [type |-> "Sigmoid"]

\* nn.Sequential(*layers); id is the identity of the allocation (and of the
\* freshly initialised parameters of the layers built with it).
Sequential(id, layers) == [type |-> "Sequential", id |-> id, layers |-> layers]

\* An empty container, a module whose __len__ is 0.
EmptySequential == Sequential(0, <<>>)

\* nn.Linear(in_features, out_features): the parameter tensors cannot be
\* allocated with a negative dimension.
Linear(in_features, out_features) ==
    [raised |-> IF in_features < 0 \/ out_features < 0
                THEN Some("RuntimeError") ELSE None,
     module |-> [type |-> "Linear",
                 in_features |-> in_features,
                 out_features |-> out_features]]

\* Python truth value of an Optional[nn.Module]: None is false, a container
\* module (one with __len__) is false when empty, any other module is true.
bool(o) ==
    /\ o # None
    /\ The(o).type = "Sequential" => Len(The(o).layers) # 0

\* A tensor of the given leading dimensions and trailing width holding data.
Tensor(lead, width, data) ==
    [shape |-> lead \o <<width>>, value |-> [fn |-> data]]

Width(t) == t.shape[Len(t.shape)]

Lead(t) == SubSeq(t.shape, 1, Len(t.shape) - 1)

RECURSIVE Call(_, _, _)
\* module(x), with params the identity of the parameters of the enclosing
\* network: [raised, out].
Call(module, params, x) ==
    CASE module.type = "Linear" ->
           IF Width(x) # module.in_features
           THEN [raised |-> Some("RuntimeError"), out |-> None]
           ELSE [raised |-> None,
                 out |-> Some([shape |-> Lead(x) \o <<module.out_features>>,
                               value |-> [fn |-> "Linear", params |-> params,
                                          of |-> x.value]])]
      [] module.type = "Sequential" ->
           IF module.layers = <<>>
           THEN [raised |-> None, out |-> Some(x)]
           ELSE LET first == Call(Head(module.layers), params, x)
                IN  IF first.raised # None
                    THEN first
                    ELSE Call(Sequential(module.id, Tail(module.layers)),
                              params, The(first.out))
      [] OTHER ->
           [raised |-> None,
            out |-> Some([shape |-> x.shape,
                          value |-> [fn |-> module.type, of |-> x.value]])]

---------------------------------------------------------------------------
\* class FieldHeadNames(Enum): member name -> value.

FieldHeadNames ==
    [RGB |-> "rgb",
     SH |-> "sh",
     DENSITY |-> "density",
     UNCERTAINTY |-> "uncertainty",
     TRANSIENT_RGB |-> "transient_rgb",
     TRANSIENT_DENSITY |-> "transient_density",
     SEMANTICS |-> "semantics"]

Members == DOMAIN FieldHeadNames

---------------------------------------------------------------------------
\* class FieldHead(FieldModule).  Every method returns the exception it
\* raised (None when it returned) and the object as the call left it.

\* FieldHead._construct_net; id is the identity of the nn.Sequential it
\* allocates.
construct_net(self, id) ==
    LET lin == Linear(self.in_dim, self.out_dim)
        layers == <<lin.module>> \o (IF bool(self.activation)
                                     THEN <<The(self.activation)>>
                                     ELSE <<>>)
    IN  IF lin.raised # None
        THEN [raised |-> lin.raised, self |-> self]
        ELSE [raised |-> None,
              self |-> SetAttr(self, "net", Some(Sequential(id, layers)))]

\* FieldHead.__init__
FieldHead(out_dim, field_head_name, in_dim, activation, id) ==
    LET self == [out_dim |-> out_dim,
                 activation |-> activation,
                 field_head_name |-> field_head_name,
                 net |-> None]
    IN  IF in_dim # None
        THEN construct_net(SetAttr(self, "in_dim", The(in_dim)), id)
        ELSE [raised |-> None, self |-> self]

\* set_in_dim as it would be if it kept the network when in_dim is unchanged.
set_in_dim_keeps_net(self, in_dim, id) ==
    IF HasAttr(self, "in_dim") /\ self.net # None /\ self.in_dim = in_dim
    THEN [raised |-> None, self |-> self]
    ELSE construct_net(SetAttr(self, "in_dim", in_dim), id)

\* FieldHead.set_in_dim
set_in_dim(self, in_dim, id) ==
    construct_net(SetAttr(self, "in_dim", in_dim), id)

\* forward as it would be if an unbuilt network were built lazily from the
\* input's trailing width.
forward_infers_in_dim(self, in_tensor) ==
    LET r == IF bool(self.net)
             THEN [raised |-> None, self |-> self]
             ELSE construct_net(SetAttr(self, "in_dim", Width(in_tensor)), 0)
    IN  IF r.raised # None
        THEN [raised |-> r.raised, out |-> None,
              self |-> r.self, net_called |-> FALSE]
        ELSE LET c == Call(The(r.self.net), The(r.self.net).id, in_tensor)
             IN  [raised |-> c.raised, out |-> c.out,
                  self |-> r.self, net_called |-> TRUE]

\* forward as it would be if it recorded the width of the last input.
forward_records_width(self, in_tensor) ==
    IF ~bool(self.net)
    THEN [raised |-> Some("SystemError"), out |-> None,
          self |-> self, net_called |-> FALSE]
    ELSE LET r == Call(The(self.net), The(self.net).id, in_tensor)
         IN  [raised |-> r.raised, out |-> r.out,
              self |-> SetAttr(self, "in_dim", Width(in_tensor)),
              net_called |-> TRUE]

\* FieldHead.forward; net_called tells whether self.net(in_tensor) ran.
forward(self, in_tensor) ==
    IF ~bool(self.net)
    THEN [raised |-> Some("SystemError"), out |-> None,
          self |-> self, net_called |-> FALSE]
    ELSE LET r == Call(The(self.net), The(self.net).id, in_tensor)
         IN  [raised |-> r.raised, out |-> r.out,
              self |-> self, net_called |-> TRUE]

---------------------------------------------------------------------------
\* The subclasses: each constructor is called with keyword arguments and
\* fills in the defaults of the parameters the call omits.

DensityFieldHead(kwargs, id) ==
    FieldHead(1, "DENSITY", Arg(kwargs, "in_dim", None),
              Arg(kwargs, "activation", Some(Softplus)), id)

RGBFieldHead(kwargs, id) ==
    FieldHead(3, "RGB", Arg(kwargs, "in_dim", None),
              Arg(kwargs, "activation", Some(Sigmoid)), id)

\* SHFieldHead as it would be with levels * 2 in place of levels ** 2.
SHFieldHead_doubled(kwargs, id) ==
    LET levels == Arg(kwargs, "levels", 3)
        channels == Arg(kwargs, "channels", 3)
        out_dim == channels * levels * 2
    IN  FieldHead(out_dim, "SH", Arg(kwargs, "in_dim", None),
                  Arg(kwargs, "activation", None), id)

SHFieldHead(kwargs, id) ==
    LET levels == Arg(kwargs, "levels", 3)
        channels == Arg(kwargs, "channels", 3)
        out_dim == channels * levels ^ 2
    IN  FieldHead(out_dim, "SH", Arg(kwargs, "in_dim", None),
                  Arg(kwargs, "activation", None), id)

UncertaintyFieldHead(kwargs, id) ==
    FieldHead(1, "UNCERTAINTY", Arg(kwargs, "in_dim", None),
              Arg(kwargs, "activation", Some(Softplus)), id)

\* TransientRGBFieldHead as it would be if it kept RGBFieldHead's tag.
TransientRGBFieldHead_rgb_tag(kwargs, id) ==
    FieldHead(3, "RGB", Arg(kwargs, "in_dim", None),
              Arg(kwargs, "activation", Some(Sigmoid)), id)

TransientRGBFieldHead(kwargs, id) ==
    FieldHead(3, "TRANSIENT_RGB", Arg(kwargs, "in_dim", None),
              Arg(kwargs, "activation", Some(Sigmoid)), id)

TransientDensityFieldHead(kwargs, id) ==
    FieldHead(1, "TRANSIENT_DENSITY", Arg(kwargs, "in_dim", None),
              Arg(kwargs, "activation", Some(Softplus)), id)

SemanticFieldHead(kwargs, id) ==
    FieldHead(kwargs.num_classes, "SEMANTICS", Arg(kwargs, "in_dim", None),
              None, id)

---------------------------------------------------------------------------
\* The calls a client can make.

Dims == -1 .. MaxDim

InDimKw == {NoKwargs} \cup {"in_dim" :> o : o \in {None} \cup {Some(d) : d \in Dims}}

Activations == {None, Some(Sigmoid), Some(EmptySequential)}

ActivationKw == {NoKwargs} \cup {"activation" :> a : a \in Activations}

LevelsKw == {NoKwargs} \cup {"levels" :> l : l \in -1 .. MaxLevels}

ChannelsKw == {NoKwargs} \cup {"channels" :> c : c \in -1 .. MaxChannels}

OutDims == -1 .. MaxOut

\* The tags the base class is constructed with.
BaseNames == {"RGB", "SEMANTICS"}

Leads == {<<>>, <<4>>}

Tensors == {Tensor(lead, w, "x") : lead \in Leads, w \in 0 .. MaxDim}

Init ==
    /\ obj = NoObject
    /\ ctor = [cls |-> "", kwargs |-> NoKwargs]
    /\ allocs = 0
    /\ set_called = FALSE
    /\ last = [op |-> "none"]

\* The one constructor call cls(**kwargs), with outcome r: the object exists
\* only if __init__ returned.
New(cls, kwargs, r) ==
    /\ last.op = "none"
    /\ obj' = IF r.raised = None THEN r.self ELSE NoObject
    /\ ctor' = IF r.raised = None THEN [cls |-> cls, kwargs |-> kwargs] ELSE ctor
    /\ allocs' = IF r.raised = None /\ r.self.net # None THEN 1 ELSE 0
    /\ set_called' = FALSE
    /\ last' = [op |-> "__init__", cls |-> cls, kwargs |-> kwargs,
                raised |-> r.raised]

NewFieldHead ==
    \E out_dim \in OutDims, name \in BaseNames, k1 \in InDimKw, k2 \in ActivationKw :
        LET kwargs == ("out_dim" :> out_dim) @@ ("field_head_name" :> name) @@ k1 @@ k2
        IN  New("FieldHead", kwargs,
                FieldHead(out_dim, name, Arg(kwargs, "in_dim", None),
                          Arg(kwargs, "activation", None), 1))

NewDensityFieldHead ==
    \E k1 \in InDimKw, k2 \in ActivationKw :
        New("DensityFieldHead", k1 @@ k2, DensityFieldHead(k1 @@ k2, 1))

NewRGBFieldHead ==
    \E k1 \in InDimKw, k2 \in ActivationKw :
        New("RGBFieldHead", k1 @@ k2, RGBFieldHead(k1 @@ k2, 1))

NewSHFieldHead ==
    \E k1 \in InDimKw, k2 \in ActivationKw, k3 \in LevelsKw, k4 \in ChannelsKw :
        New("SHFieldHead", k1 @@ k2 @@ k3 @@ k4,
            SHFieldHead(k1 @@ k2 @@ k3 @@ k4, 1))

NewUncertaintyFieldHead ==
    \E k1 \in InDimKw, k2 \in ActivationKw :
        New("UncertaintyFieldHead", k1 @@ k2, UncertaintyFieldHead(k1 @@ k2, 1))

NewTransientRGBFieldHead ==
    \E k1 \in InDimKw, k2 \in ActivationKw :
        New("TransientRGBFieldHead", k1 @@ k2, TransientRGBFieldHead(k1 @@ k2, 1))

NewTransientDensityFieldHead ==
    \E k1 \in InDimKw, k2 \in ActivationKw :
        New("TransientDensityFieldHead", k1 @@ k2,
            TransientDensityFieldHead(k1 @@ k2, 1))

NewSemanticFieldHead ==
    \E num_classes \in OutDims, k1 \in InDimKw :
        LET kwargs == ("num_classes" :> num_classes) @@ k1
        IN  New("SemanticFieldHead", kwargs, SemanticFieldHead(kwargs, 1))

\* head.set_in_dim(in_dim)
SetInDim ==
    /\ Exists(obj)
    /\ allocs < MaxNets
    /\ \E in_dim \in Dims :
         LET r == set_in_dim(obj, in_dim, allocs + 1)
         IN  /\ obj' = r.self
             /\ allocs' = IF r.raised = None THEN allocs + 1 ELSE allocs
             /\ last' = [op |-> "set_in_dim", in_dim |-> in_dim,
                         raised |-> r.raised]
    /\ set_called' = TRUE
    /\ UNCHANGED ctor

\* head(in_tensor)
Forward ==
    /\ Exists(obj)
    /\ \E in_tensor \in Tensors :
         LET r == forward(obj, in_tensor)
         IN  /\ obj' = r.self
             /\ last' = [op |-> "forward", in_tensor |-> in_tensor,
                         raised |-> r.raised, out |-> r.out,
                         net_called |-> r.net_called]
    /\ UNCHANGED <<ctor, allocs, set_called>>

Next ==
    \/ NewRGBFieldHead
    \/ NewDensityFieldHead
    \/ NewFieldHead
    \/ NewSHFieldHead
    \/ NewUncertaintyFieldHead
    \/ NewTransientRGBFieldHead
    \/ NewTransientDensityFieldHead
    \/ NewSemanticFieldHead
    \/ SetInDim
    \/ Forward

Spec == Init /\ [][Next]_vars

---------------------------------------------------------------------------
\* Vocabulary of the properties.

\* The two states of the documented lifecycle.
Unbound(self) == ~HasAttr(self, "in_dim") /\ self.net = None

Bound(self) == HasAttr(self, "in_dim") /\ self.net # None

\* The in_dim argument of the constructor call (None when omitted).
CtorInDim == Arg(ctor.kwargs, "in_dim", None)

\* The constructor call left the activation parameter to its default.
DefaultActivation == "activation" \notin DOMAIN ctor.kwargs

\* The affine layer of a built network.
Affine(net) == Head(The(net).layers)

\* forward on self returns (rather than raises) for inputs of this width.
Accepts(self, width) ==
    \A t \in Tensors : Width(t) = width => forward(self, t).raised = None

Rejects(self, width) ==
    \A t \in Tensors : Width(t) = width => forward(self, t).raised # None

\* The step is a call of self.method that was made on an existing head.
Called(op) == Exists(obj) /\ last'.op = op /\ vars' # vars

\* The tag each subclass gives its heads.
SubclassTag ==
    [DensityFieldHead |-> DensityFieldHead(NoKwargs, 1).self.field_head_name,
     RGBFieldHead |-> RGBFieldHead(NoKwargs, 1).self.field_head_name,
     SHFieldHead |-> SHFieldHead(NoKwargs, 1).self.field_head_name,
     UncertaintyFieldHead |-> UncertaintyFieldHead(NoKwargs, 1).self.field_head_name,
     TransientRGBFieldHead |-> TransientRGBFieldHead(NoKwargs, 1).self.field_head_name,
     TransientDensityFieldHead |->
         TransientDensityFieldHead(NoKwargs, 1).self.field_head_name,
     SemanticFieldHead |->
         SemanticFieldHead("num_classes" :> 1, 1).self.field_head_name]

---------------------------------------------------------------------------
\* C1: on a head constructed without in_dim and on which set_in_dim was never
\* called, every forward call raises the 'in_dim not set' SystemError, for
\* every input, without calling the network and without deriving in_dim from
\* the input; the head is Unbound, and unchanged, after the call.
C1_ForwardOnUnboundRaises ==
    [][(Called("forward") /\ CtorInDim = None /\ ~set_called)
         => /\ last'.raised = Some("SystemError")
            /\ ~last'.net_called
            /\ last'.out = None
            /\ obj' = obj
            /\ Unbound(obj')]_vars

\* A forward call on such a head, with an input of positive width, has raised.
C1_Witness ==
    /\ Exists(obj)
    /\ CtorInDim = None
    /\ ~set_called
    /\ last.op = "forward"
    /\ Width(last.in_tensor) = MaxDim
    /\ last.raised = Some("SystemError")

\* C2: in every reachable state of a head, the network is built if and only
\* if in_dim has been set (at construction or through set_in_dim).
C2_NetIffInDim ==
    Exists(obj) => (obj.net # None <=> HasAttr(obj, "in_dim"))

\* C3: the lifecycle has exactly the states Unbound and Bound; a head starts
\* Bound if in_dim is supplied to the constructor and Unbound otherwise, and
\* construction without in_dim raises nothing; set_in_dim leads to Bound from
\* either state; a Bound head stays Bound, and forward never raises the
\* 'in_dim not set' error on a head that has been Bound.
C3_Lifecycle ==
    [][/\ Exists(obj') => (Unbound(obj') \/ Bound(obj'))
       /\ (last'.op = "__init__" /\ last.op = "none")
            => /\ Arg(last'.kwargs, "in_dim", None) = None
                    => (last'.raised = None /\ Unbound(obj'))
               /\ (Arg(last'.kwargs, "in_dim", None) # None /\ Exists(obj'))
                    => Bound(obj')
       /\ Called("set_in_dim") => Bound(obj')
       /\ (Exists(obj) /\ Bound(obj)) => Bound(obj')
       /\ (Called("forward") /\ allocs > 0)
            => last'.raised # Some("SystemError")]_vars

C5_ForwardChangesNothing ==
    [][Called("forward")
         => /\ obj' = obj
            /\ allocs' = allocs
            /\ (last.op = "forward" /\ last'.in_tensor = last.in_tensor)
                 => (last'.raised = last.raised /\ last'.out = last.out)]_vars

\* forward has returned an output on a head that was rebound before.
C5_Witness ==
    /\ Exists(obj)
    /\ Bound(obj)
    /\ set_called
    /\ last.op = "forward"
    /\ last.raised = None
    /\ last.out # None

\* C6: a constructor call with a non-positive out_dim, num_classes, levels or
\* channels raises, with or without in_dim, so no head with a non-positive
\* out_dim, levels or channels exists.
C6_InvalidArgumentsRejected ==
    /\ (last.op = "__init__"
          /\ \E k \in DOMAIN last.kwargs \cap
                       {"out_dim", "num_classes", "levels", "channels"} :
               last.kwargs[k] <= 0)
         => last.raised # None
    /\ Exists(obj)
         => /\ obj.out_dim > 0
            /\ ctor.cls = "SHFieldHead"
                 => Arg(ctor.kwargs, "levels", 3) > 0
                      /\ Arg(ctor.kwargs, "channels", 3) > 0

C8_SHOutDim ==
    (Exists(obj) /\ ctor.cls = "SHFieldHead")
      => LET L == Arg(ctor.kwargs, "levels", 3)
             C == Arg(ctor.kwargs, "channels", 3)
         IN  /\ obj.out_dim = C * L * L
             /\ (L = 3 /\ C = 3) => obj.out_dim = 27
             /\ (L = 2 /\ C = 1) => obj.out_dim = 4

\* The default SHFieldHead, of out_dim 27, after a set_in_dim and a forward.
C8_Witness ==
    /\ Exists(obj)
    /\ ctor.cls = "SHFieldHead"
    /\ "levels" \notin DOMAIN ctor.kwargs
    /\ "channels" \notin DOMAIN ctor.kwargs
    /\ obj.out_dim = 27
    /\ set_called
    /\ last.op = "forward"
    /\ last.raised = None

\* C9: every network a constructor or set_in_dim call builds is one affine
\* layer from in_dim to out_dim, followed by the activation exactly when the
\* head's activation is not None; forward on a head with a built network
\* returns activation(affine(x)) when the activation is not None and
\* affine(x) otherwise, with the input's leading dimensions and trailing
\* dimension out_dim.
C9_NetIsAffineThenActivation ==
    [][/\ (Exists(obj') /\ obj'.net # None
             /\ (Exists(obj) => obj'.net # obj.net))
            => The(obj'.net).layers =
                 <<Linear(obj'.in_dim, obj'.out_dim).module>>
                   \o (IF obj'.activation # None
                       THEN <<The(obj'.activation)>>
                       ELSE <<>>)
       /\ (Called("forward") /\ obj.net # None /\ last'.raised = None)
            => LET x == last'.in_tensor
                   params == The(obj.net).id
                   affine == The(Call(Affine(obj.net), params, x).out)
               IN  /\ The(last'.out).shape = Lead(x) \o <<obj.out_dim>>
                   /\ last'.out =
                        IF obj.activation # None
                        THEN Call(The(obj.activation), params, affine).out
                        ELSE Some(affine)]_vars

\* C10: whenever the network is built its affine layer goes from the head's
\* current in_dim to its out_dim, and a set_in_dim call that raises leaves
\* in_dim and net as they were.
C10_NetMatchesInDim ==
    [][/\ (Exists(obj') /\ obj'.net # None)
            => /\ HasAttr(obj', "in_dim")
               /\ Affine(obj'.net).in_features = obj'.in_dim
               /\ Affine(obj'.net).out_features = obj'.out_dim
       /\ (Called("set_in_dim") /\ last'.raised # None)
            => obj' = obj]_vars

====
